---- MODULE Spec2Model ----
(***************************************************************************)
(* Model of the MySQL cluster operator (pkg/operator/cluster/operator.go): *)
(* AddCluster and UpdateCluster run against a platform (the Kubernetes API)*)
(* holding Services, StatefulSets, MySQLBackupInstances and the            *)
(* MySQLCluster resources.  Every platform call is one atomic step; its    *)
(* answer is decided by the platform's state or is a remote failure.       *)
(***************************************************************************)
EXTENDS Naturals, Sequences, FiniteSets, TLC

\* ------------------------------------------------------------------ bounds
MaxCalls == 2       \* AddCluster/UpdateCluster invocations in one behaviour
MaxExternal == 1    \* steps of actors other than the operator

\* --------------------------------------------------------------- constants
serviceTemplate == "artifacts/cluster-service.yaml"
serviceReadTemplate == "artifacts/cluster-service-read.yaml"
statefulSetTemplate == "artifacts/cluster-statefulset.yaml"
Templates == {serviceTemplate, serviceReadTemplate, statefulSetTemplate}

DefaultPort == 3306
CustomPort == 3307
BackupNames == {"bk"}

\* The cluster identities of the model; the single-worker specification runs
\* the first one only.
Clusters == {"db", "db-read"}
MainCluster == "db"

\* ------------------------------------------------------------------ naming
ServiceName(clusterName) == clusterName
ReadServiceName(clusterName) == clusterName \o "-read"
StatefulSetName(clusterName) == clusterName

SvcNames == UNION {{ServiceName(n), ReadServiceName(n)} : n \in Clusters}
StsNames == {StatefulSetName(n) : n \in Clusters}

\* ----------------------------------------------------------------- objects
NoStatus == [state |-> "", message |-> ""]
\* The specs a cluster resource is given: all fields unset, a backup to start
\* from, a port of its own.
ClusterSpecs ==
    {[port |-> 0, fromBackup |-> ""]} \cup
    {[port |-> 0, fromBackup |-> b] : b \in BackupNames} \cup
    {[port |-> CustomPort, fromBackup |-> ""]}

\* cluster.WithDefaults(): unset optional fields get their defaults.
WithDefaults(cluster) ==
    [cluster EXCEPT !.spec.port = IF @ = 0 THEN DefaultPort ELSE @]

NoObject == [exists |-> FALSE, version |-> 0, port |-> 0, owner |-> "", backup |-> ""]

\* ------------------------------------------------------------------ errors
\* An error value: nil is NoError; a plain error has one cause; an Aggregate
\* has the causes of its non-nil members, in order.
NoError == [agg |-> FALSE, causes |-> <<>>]
PlainError(cause) == [agg |-> FALSE, causes |-> <<cause>>]
IsNil(e) == e.causes = <<>>

\* errors.NewAggregate([]error{e1, e2}): nil members are dropped, an empty
\* list is nil.
NewAggregate(e1, e2) ==
    IF IsNil(e1) /\ IsNil(e2) THEN NoError
    ELSE [agg |-> TRUE, causes |-> e1.causes \o e2.causes]

Call(op, kind, name, res, token) ==
    [op |-> op, kind |-> kind, name |-> name, res |-> res, token |-> token]
Failed(res) == res \notin {"ok"}
ErrorOf(call) == IF Failed(call.res) THEN PlainError(call) ELSE NoError
IsAlreadyExists(e) ==
    Len(e.causes) = 1 /\ ~e.agg /\ e.causes[1].res = "AlreadyExists"

VARIABLES
    services,      \* platform: Service name -> object
    statefulsets,  \* platform: StatefulSet name -> object
    backups,       \* platform: names of the MySQLBackupInstances that exist
    stored,        \* platform: cluster name -> stored MySQLCluster (spec, status)
    badTemplates,  \* templates that do not render
    pc,            \* per cluster worker: position in AddCluster/UpdateCluster
    op,            \* per worker: the operation of the current (or last) call
    cluster,       \* per worker: the in-memory MySQLCluster of the call
    err,           \* per worker: the local variable err
    oldVersion,    \* per worker: oldService.ObjectMeta.ResourceVersion
    ret,           \* per worker: the value the last call returned
    log,           \* per worker: the platform calls of the current call, in order
    before,        \* per worker: the platform as it was when the call began
    active,        \* the cluster identities that have a worker
    ncalls,        \* invocations begun
    nexternal,     \* external steps taken
    queue,         \* dispatcher: per identity, the notifications not yet handled
    delivered,     \* dispatcher: per identity, every notification delivered
    invoked        \* dispatcher: per identity, the invocations it has made

platformVars == <<services, statefulsets, backups, stored, badTemplates>>
workerVars == <<pc, op, cluster, err, oldVersion, ret, log, before>>
dispatchVars == <<queue, delivered, invoked>>
vars == <<services, statefulsets, backups, stored, badTemplates, pc, op, cluster,
          err, oldVersion, ret, log, before, active, ncalls, nexternal,
          queue, delivered, invoked>>

\* --------------------------------------------------------------- rendering
\* util.ObjectFromTemplate: the object of a template, or a render error.
ObjectFromTemplate(filename, obj) ==
    IF filename \in badTemplates
    THEN [ok |-> FALSE, obj |-> obj,
          err |-> PlainError(Call("Render", "Template", filename, "RenderError", 0))]
    ELSE [ok |-> TRUE, obj |-> obj, err |-> NoError]

serviceForCluster(c, filename) ==
    ObjectFromTemplate(filename,
        [exists |-> TRUE, version |-> 0, port |-> c.spec.port, owner |-> c.name,
         backup |-> "",
         name |-> IF filename = serviceTemplate THEN ServiceName(c.name)
                  ELSE ReadServiceName(c.name)])

\* backup is the name of the resolved MySQLBackupInstance, "" for nil.
statefulSetForCluster(c, backup) ==
    ObjectFromTemplate(statefulSetTemplate,
        [exists |-> TRUE, version |-> 0, port |-> c.spec.port, owner |-> c.name,
         backup |-> backup, name |-> StatefulSetName(c.name)])

\* ---------------------------------------------------------------- platform
\* The answers the platform can give to a call: what its state decides, or a
\* remote failure that leaves the state alone.
CreateAnswers(obj) == IF obj.exists THEN {"AlreadyExists", "Failure"} ELSE {"ok", "Failure"}
DeleteAnswers(obj) == IF obj.exists THEN {"ok", "Failure"} ELSE {"NotFound", "Failure"}
GetAnswers(exists) == IF exists THEN {"ok", "Failure"} ELSE {"NotFound", "Failure"}
UpdateAnswers(obj, token) ==
    IF ~obj.exists THEN {"NotFound", "Failure"}
    ELSE IF token # 0 /\ token # obj.version THEN {"Conflict", "Failure"}
    ELSE {"ok", "Failure"}

\* The object a successful create or update stores: the rendered fields, under
\* the next version of that name.
Written(old, new) ==
    [exists |-> TRUE, version |-> old.version + 1, port |-> new.port,
     owner |-> new.owner, backup |-> new.backup]
Deleted(old) == [NoObject EXCEPT !.version = old.version]

\* ------------------------------------------------------------ control flow
Return(w, e) ==
    /\ pc' = [pc EXCEPT ![w] = "done"]
    /\ ret' = [ret EXCEPT ![w] = e]
    /\ err' = [err EXCEPT ![w] = e]

Goto(w, label, e) ==
    /\ pc' = [pc EXCEPT ![w] = label]
    /\ err' = [err EXCEPT ![w] = e]
    /\ UNCHANGED ret

Logged(w, calls) == log' = [log EXCEPT ![w] = @ \o calls]

Snapshot(w) ==
    [services |-> services, statefulsets |-> statefulsets, stored |-> stored[w],
     nexternal |-> nexternal]

\* No call of the worker is under way.
Idle(w) == pc[w] \in {"idle", "done"}

Begin(w, operation, first) ==
    /\ w \in active
    /\ ncalls < MaxCalls
    /\ ncalls' = ncalls + 1
    /\ op' = [op EXCEPT ![w] = operation]
    /\ cluster' = [cluster EXCEPT ![w] =
           WithDefaults([name |-> w, spec |-> stored[w].spec,
                         status |-> stored[w].status, version |-> stored[w].version])]
    /\ log' = [log EXCEPT ![w] = <<>>]
    /\ before' = [before EXCEPT ![w] = Snapshot(w)]
    /\ pc' = [pc EXCEPT ![w] = first]
    /\ err' = [err EXCEPT ![w] = NoError]
    /\ ret' = [ret EXCEPT ![w] = NoError]
    /\ oldVersion' = [oldVersion EXCEPT ![w] = 0]
    /\ UNCHANGED <<platformVars, active, nexternal>>

\* -------------------------------------------------------------- AddCluster
AddClusterBegin(w) ==
    Idle(w) /\ Begin(w, "AddCluster", "createService") /\ UNCHANGED dispatchVars

\* createService with AlreadyExists returned like any other error.
createService_AlreadyExistsFails(c, filename) ==
    LET r == serviceForCluster(c, filename) IN
    IF ~r.ok
    THEN {[calls |-> <<>>, err |-> r.err, services |-> services]}
    ELSE {LET call == Call("Create", "Service", r.obj.name, res, 0) IN
          [calls |-> <<call>>,
           err |-> ErrorOf(call),
           services |-> IF res = "ok"
                        THEN [services EXCEPT ![r.obj.name] = Written(@, r.obj)]
                        ELSE services]
          : res \in CreateAnswers(services[r.obj.name])}

\* createService(cluster, filename): render, Create; AlreadyExists is not an
\* error.  Each result holds the platform calls made, the error returned and
\* the Services afterwards.
createService(c, filename) ==
    LET r == serviceForCluster(c, filename) IN
    IF ~r.ok
    THEN {[calls |-> <<>>, err |-> r.err, services |-> services]}
    ELSE {LET call == Call("Create", "Service", r.obj.name, res, 0) IN
          [calls |-> <<call>>,
           err |-> IF Failed(res) /\ ~IsAlreadyExists(ErrorOf(call))
                   THEN ErrorOf(call) ELSE NoError,
           services |-> IF res = "ok"
                        THEN [services EXCEPT ![r.obj.name] = Written(@, r.obj)]
                        ELSE services]
          : res \in CreateAnswers(services[r.obj.name])}

\* removeService / removeReadService: Delete by the derived name; the error
\* of the Delete is returned as it is.
removeServiceNamed(name) ==
    {LET call == Call("Delete", "Service", name, res, 0) IN
     [calls |-> <<call>>, err |-> ErrorOf(call),
      services |-> IF res = "ok" THEN [services EXCEPT ![name] = Deleted(@)]
                   ELSE services]
     : res \in DeleteAnswers(services[name])}
removeService(c) == removeServiceNamed(ServiceName(c.name))
removeReadService(c) == removeServiceNamed(ReadServiceName(c.name))

\* The MySQLBackupInstance Get of createStatefulSet (lines 146-152).
getBackup(c) ==
    {LET call == Call("Get", "Backup", c.spec.fromBackup, res, 0) IN
     [calls |-> <<call>>, err |-> ErrorOf(call)]
     : res \in GetAnswers(c.spec.fromBackup \in backups)}

\* The rest of createStatefulSet (lines 154-167), backup being resolved.
createStatefulSet(c, backup) ==
    LET r == statefulSetForCluster(c, backup) IN
    IF ~r.ok
    THEN {[calls |-> <<>>, err |-> r.err, statefulsets |-> statefulsets]}
    ELSE {LET call == Call("Create", "StatefulSet", r.obj.name, res, 0) IN
          [calls |-> <<call>>,
           err |-> IF Failed(res) /\ ~IsAlreadyExists(ErrorOf(call))
                   THEN ErrorOf(call) ELSE NoError,
           statefulsets |-> IF res = "ok"
                            THEN [statefulsets EXCEPT ![r.obj.name] = Written(@, r.obj)]
                            ELSE statefulsets]
          : res \in CreateAnswers(statefulsets[r.obj.name])}

\* Where AddCluster goes after the read service is there: createStatefulSet
\* first fetches the backup when the cluster is created from one.
AfterReadService(c) == IF c.spec.fromBackup # "" THEN "getBackup" ELSE "createStatefulSet"

\* AddCluster, lines 48-51.
CreateService(w) ==
    /\ pc[w] = "createService"
    /\ \E r \in createService(cluster[w], serviceTemplate) :
         /\ services' = r.services
         /\ Logged(w, r.calls)
         /\ IF ~IsNil(r.err) THEN Return(w, r.err)
            ELSE Goto(w, "createReadService", NoError)
    /\ UNCHANGED <<statefulsets, backups, stored, badTemplates, op, cluster,
                   oldVersion, before, active, ncalls, nexternal, dispatchVars>>

\* CreateReadService rendering the template of the read-write Service.
CreateReadService_WrongTemplate(w) ==
    /\ pc[w] = "createReadService"
    /\ \E r \in createService(cluster[w], serviceTemplate) :
         /\ services' = r.services
         /\ Logged(w, r.calls)
         /\ IF ~IsNil(r.err) THEN Goto(w, "revertService", r.err)
            ELSE Goto(w, AfterReadService(cluster[w]), NoError)
    /\ UNCHANGED <<statefulsets, backups, stored, badTemplates, op, cluster,
                   oldVersion, before, active, ncalls, nexternal, dispatchVars>>

\* AddCluster, lines 54-58.
CreateReadService(w) ==
    /\ pc[w] = "createReadService"
    /\ \E r \in createService(cluster[w], serviceReadTemplate) :
         /\ services' = r.services
         /\ Logged(w, r.calls)
         /\ IF ~IsNil(r.err) THEN Goto(w, "revertService", r.err)
            ELSE Goto(w, AfterReadService(cluster[w]), NoError)
    /\ UNCHANGED <<statefulsets, backups, stored, badTemplates, op, cluster,
                   oldVersion, before, active, ncalls, nexternal, dispatchVars>>

\* RevertService with the result of the Delete dropped from what is returned.
RevertService_DropsRemoveErr(w) ==
    /\ pc[w] = "revertService"
    /\ \E r \in removeService(cluster[w]) :
         /\ services' = r.services
         /\ Logged(w, r.calls)
         /\ Return(w, err[w])
    /\ UNCHANGED <<statefulsets, backups, stored, badTemplates, op, cluster,
                   oldVersion, before, active, ncalls, nexternal, dispatchVars>>

\* AddCluster, lines 59-60: the cleanup after a failed read service.
RevertService(w) ==
    /\ pc[w] = "revertService"
    /\ \E r \in removeService(cluster[w]) :
         /\ services' = r.services
         /\ Logged(w, r.calls)
         /\ Return(w, NewAggregate(err[w], r.err))
    /\ UNCHANGED <<statefulsets, backups, stored, badTemplates, op, cluster,
                   oldVersion, before, active, ncalls, nexternal, dispatchVars>>

\* GetBackup returning the error of the fetch without any cleanup.
GetBackup_NoRevert(w) ==
    /\ pc[w] = "getBackup"
    /\ \E r \in getBackup(cluster[w]) :
         /\ Logged(w, r.calls)
         /\ IF ~IsNil(r.err) THEN Return(w, r.err)
            ELSE Goto(w, "createStatefulSet", NoError)
    /\ UNCHANGED <<platformVars, op, cluster, oldVersion, before, active, ncalls,
                   nexternal, dispatchVars>>

\* AddCluster, line 64, first half of createStatefulSet: the backup.
GetBackup(w) ==
    /\ pc[w] = "getBackup"
    /\ \E r \in getBackup(cluster[w]) :
         /\ Logged(w, r.calls)
         /\ IF ~IsNil(r.err) THEN Goto(w, "revertServices", r.err)
            ELSE Goto(w, "createStatefulSet", NoError)
    /\ UNCHANGED <<platformVars, op, cluster, oldVersion, before, active, ncalls,
                   nexternal, dispatchVars>>

\* CreateStatefulSet going on to write a success status, as UpdateCluster does.
CreateStatefulSet_WritesStatus(w) ==
    /\ pc[w] = "createStatefulSet"
    /\ \E r \in createStatefulSet(cluster[w], cluster[w].spec.fromBackup) :
         /\ statefulsets' = r.statefulsets
         /\ Logged(w, r.calls)
         /\ IF ~IsNil(r.err) THEN Goto(w, "revertServices", r.err)
            ELSE Goto(w, "setStateSuccess", NoError)
    /\ UNCHANGED <<services, backups, stored, badTemplates, op, cluster,
                   oldVersion, before, active, ncalls, nexternal, dispatchVars>>

\* CreateStatefulSet returning its error without undoing the Services.
CreateStatefulSet_NoRevert(w) ==
    /\ pc[w] = "createStatefulSet"
    /\ \E r \in createStatefulSet(cluster[w], cluster[w].spec.fromBackup) :
         /\ statefulsets' = r.statefulsets
         /\ Logged(w, r.calls)
         /\ Return(w, r.err)
    /\ UNCHANGED <<services, backups, stored, badTemplates, op, cluster,
                   oldVersion, before, active, ncalls, nexternal, dispatchVars>>

\* AddCluster, lines 64-68, second half of createStatefulSet.
CreateStatefulSet(w) ==
    /\ pc[w] = "createStatefulSet"
    /\ \E r \in createStatefulSet(cluster[w], cluster[w].spec.fromBackup) :
         /\ statefulsets' = r.statefulsets
         /\ Logged(w, r.calls)
         /\ IF ~IsNil(r.err) THEN Goto(w, "revertServices", r.err)
            ELSE Return(w, NoError)
    /\ UNCHANGED <<services, backups, stored, badTemplates, op, cluster,
                   oldVersion, before, active, ncalls, nexternal, dispatchVars>>

\* RevertServices giving up when the first Delete fails.
RevertServices_StopsOnFailure(w) ==
    /\ pc[w] = "revertServices"
    /\ \E r \in removeService(cluster[w]) :
         /\ services' = r.services
         /\ Logged(w, r.calls)
         /\ IF ~IsNil(r.err) THEN Return(w, NewAggregate(err[w], r.err))
            ELSE Goto(w, "revertReadService", NewAggregate(err[w], r.err))
    /\ UNCHANGED <<statefulsets, backups, stored, badTemplates, op, cluster,
                   oldVersion, before, active, ncalls, nexternal, dispatchVars>>

\* AddCluster, lines 69-70: the first cleanup after a failed stateful set.
RevertServices(w) ==
    /\ pc[w] = "revertServices"
    /\ \E r \in removeService(cluster[w]) :
         /\ services' = r.services
         /\ Logged(w, r.calls)
         /\ Goto(w, "revertReadService", NewAggregate(err[w], r.err))
    /\ UNCHANGED <<statefulsets, backups, stored, badTemplates, op, cluster,
                   oldVersion, before, active, ncalls, nexternal, dispatchVars>>

\* AddCluster, lines 72-75: the second cleanup.
RevertReadService(w) ==
    /\ pc[w] = "revertReadService"
    /\ \E r \in removeReadService(cluster[w]) :
         /\ services' = r.services
         /\ Logged(w, r.calls)
         /\ Return(w, NewAggregate(err[w], r.err))
    /\ UNCHANGED <<statefulsets, backups, stored, badTemplates, op, cluster,
                   oldVersion, before, active, ncalls, nexternal, dispatchVars>>

\* ----------------------------------------------------------- UpdateCluster
UpdateClusterBegin(w) ==
    Idle(w) /\ Begin(w, "UpdateCluster", "getService") /\ UNCHANGED dispatchVars

\* updateService, lines 182-192: render, then Get the Service of that name
\* and take its resourceVersion.  The error of the Get is overwritten at line
\* 194 without being looked at.  A failed Get hands back either an empty
\* Service (version "") or, from the fake clientset, a nil one, and reading
\* its ObjectMeta panics.
getService(c, filename) ==
    LET r == serviceForCluster(c, filename) IN
    IF ~r.ok
    THEN {[calls |-> <<>>, err |-> r.err, version |-> 0, panic |-> FALSE]}
    ELSE UNION {LET call == Call("Get", "Service", r.obj.name, res, 0) IN
                IF res = "ok"
                THEN {[calls |-> <<[call EXCEPT !.token = services[r.obj.name].version]>>,
                       err |-> NoError,
                       version |-> services[r.obj.name].version, panic |-> FALSE]}
                ELSE {[calls |-> <<call>>, err |-> NoError, version |-> 0, panic |-> p]
                      : p \in BOOLEAN}
                : res \in GetAnswers(services[r.obj.name].exists)}

\* putService without the resourceVersion of the Service read.
putService_NoVersion(c, filename, version) ==
    LET r == serviceForCluster(c, filename) IN
    {LET call == Call("Update", "Service", r.obj.name, res, 0) IN
     [calls |-> <<call>>, err |-> ErrorOf(call),
      services |-> IF res = "ok"
                   THEN [services EXCEPT ![r.obj.name] = Written(@, r.obj)]
                   ELSE services]
     : res \in UpdateAnswers(services[r.obj.name], 0)}

\* updateService, lines 192-196: Update the rendered Service under the version
\* read; the error of the Update is returned.
putService(c, filename, version) ==
    LET r == serviceForCluster(c, filename) IN
    {LET call == Call("Update", "Service", r.obj.name, res, version) IN
     [calls |-> <<call>>, err |-> ErrorOf(call),
      services |-> IF res = "ok"
                   THEN [services EXCEPT ![r.obj.name] = Written(@, r.obj)]
                   ELSE services]
     : res \in UpdateAnswers(services[r.obj.name], version)}

\* updateStatefulSet: render with a nil backup, Update, return its error.
updateStatefulSet(c) ==
    LET r == statefulSetForCluster(c, "") IN
    IF ~r.ok
    THEN {[calls |-> <<>>, err |-> r.err, statefulsets |-> statefulsets]}
    ELSE {LET call == Call("Update", "StatefulSet", r.obj.name, res, 0) IN
          [calls |-> <<call>>, err |-> ErrorOf(call),
           statefulsets |-> IF res = "ok"
                            THEN [statefulsets EXCEPT ![r.obj.name] = Written(@, r.obj)]
                            ELSE statefulsets]
          : res \in UpdateAnswers(statefulsets[r.obj.name], 0)}

\* setClusterState: set the status of the in-memory cluster and Update the
\* whole MySQLCluster; the error of the Update is returned.
WithStatus(c, state, message) ==
    [c EXCEPT !.status = [state |-> state, message |-> message]]

setClusterState(c, state, message) ==
    LET new == WithStatus(c, state, message)
        old == [exists |-> TRUE, version |-> stored[c.name].version]
    IN {LET call == Call("Update", "Cluster", c.name, res, c.version) IN
        [calls |-> <<call>>, err |-> ErrorOf(call), cluster |-> new,
         stored |-> IF res = "ok"
                    THEN [stored EXCEPT ![c.name] =
                             [spec |-> new.spec, status |-> new.status,
                              version |-> @.version + 1]]
                    ELSE stored]
        : res \in UpdateAnswers(old, c.version)}

FailedUpdate == "Failed update"
SuccessfulUpdate == "Successful update"
ServiceFailureMessage == "The provided patch resulted in a Service update failure"
StatefulSetFailureMessage == "The provided patch resulted in a StatefulSet update failure"

\* The first half of updateService for the template of the position.
GetService(w) ==
    /\ pc[w] \in {"getService", "getReadService"}
    /\ LET filename == IF pc[w] = "getService" THEN serviceTemplate
                       ELSE serviceReadTemplate
           next == IF pc[w] = "getService" THEN "updateService"
                   ELSE "updateReadService"
       IN \E r \in getService(cluster[w], filename) :
            /\ Logged(w, r.calls)
            /\ oldVersion' = [oldVersion EXCEPT ![w] = r.version]
            /\ IF r.panic THEN Goto(w, "panicked", NoError)
               ELSE IF ~IsNil(r.err) THEN Goto(w, "setStateServiceFailure", r.err)
               ELSE Goto(w, next, NoError)
    /\ UNCHANGED <<platformVars, op, cluster, before, active, ncalls, nexternal, dispatchVars>>

\* UpdateService going on to the next step whatever the Update answered.
UpdateService_IgnoresError(w) ==
    /\ pc[w] \in {"updateService", "updateReadService"}
    /\ LET filename == IF pc[w] = "updateService" THEN serviceTemplate
                       ELSE serviceReadTemplate
           next == IF pc[w] = "updateService" THEN "getReadService"
                   ELSE "updateStatefulSet"
       IN \E r \in putService(cluster[w], filename, oldVersion[w]) :
            /\ services' = r.services
            /\ Logged(w, r.calls)
            /\ Goto(w, next, NoError)
    /\ UNCHANGED <<statefulsets, backups, stored, badTemplates, op, cluster,
                   oldVersion, before, active, ncalls, nexternal, dispatchVars>>

\* The second half of updateService, and what updateServices and
\* UpdateCluster (lines 85-86) do with its error.
UpdateService(w) ==
    /\ pc[w] \in {"updateService", "updateReadService"}
    /\ LET filename == IF pc[w] = "updateService" THEN serviceTemplate
                       ELSE serviceReadTemplate
           next == IF pc[w] = "updateService" THEN "getReadService"
                   ELSE "updateStatefulSet"
       IN \E r \in putService(cluster[w], filename, oldVersion[w]) :
            /\ services' = r.services
            /\ Logged(w, r.calls)
            /\ IF ~IsNil(r.err) THEN Goto(w, "setStateServiceFailure", r.err)
               ELSE Goto(w, next, NoError)
    /\ UNCHANGED <<statefulsets, backups, stored, badTemplates, op, cluster,
                   oldVersion, before, active, ncalls, nexternal, dispatchVars>>

\* UpdateStatefulSet undoing the Services on failure, as AddCluster does.
UpdateStatefulSet_Reverts(w) ==
    /\ pc[w] = "updateStatefulSet"
    /\ \E r \in updateStatefulSet(cluster[w]) :
         /\ statefulsets' = r.statefulsets
         /\ Logged(w, r.calls)
         /\ IF ~IsNil(r.err) THEN Goto(w, "revertServices", r.err)
            ELSE Goto(w, "setStateSuccess", NoError)
    /\ UNCHANGED <<services, backups, stored, badTemplates, op, cluster,
                   oldVersion, before, active, ncalls, nexternal, dispatchVars>>

\* UpdateCluster, lines 98-99.
UpdateStatefulSet(w) ==
    /\ pc[w] = "updateStatefulSet"
    /\ \E r \in updateStatefulSet(cluster[w]) :
         /\ statefulsets' = r.statefulsets
         /\ Logged(w, r.calls)
         /\ IF ~IsNil(r.err) THEN Goto(w, "setStateStatefulSetFailure", r.err)
            ELSE Goto(w, "setStateSuccess", NoError)
    /\ UNCHANGED <<services, backups, stored, badTemplates, op, cluster,
                   oldVersion, before, active, ncalls, nexternal, dispatchVars>>

\* A position that ends in setClusterState: the status is written and the
\* call returns, either the error of the write itself (direct) or the
\* aggregate of err and that error.
SetState(w, state, message, direct) ==
    \E r \in setClusterState(cluster[w], state, message) :
         /\ stored' = r.stored
         /\ cluster' = [cluster EXCEPT ![w] = r.cluster]
         /\ Logged(w, r.calls)
         /\ Return(w, IF direct THEN r.err ELSE NewAggregate(err[w], r.err))
         /\ UNCHANGED <<services, statefulsets, backups, badTemplates, op,
                        oldVersion, before, active, ncalls, nexternal, dispatchVars>>

\* UpdateCluster, lines 87-94.
SetStateServiceFailure(w) ==
    /\ pc[w] = "setStateServiceFailure"
    /\ SetState(w, FailedUpdate, ServiceFailureMessage, FALSE)

\* SetStateStatefulSetFailure reporting with the message of the Service branch.
SetStateStatefulSetFailure_ServiceMessage(w) ==
    /\ pc[w] = "setStateStatefulSetFailure"
    /\ SetState(w, FailedUpdate, ServiceFailureMessage, FALSE)

\* UpdateCluster, lines 100-107.
SetStateStatefulSetFailure(w) ==
    /\ pc[w] = "setStateStatefulSetFailure"
    /\ SetState(w, FailedUpdate, StatefulSetFailureMessage, FALSE)

\* SetStateSuccess compensating like the failure branches: an aggregate.
SetStateSuccess_Aggregates(w) ==
    /\ pc[w] = "setStateSuccess"
    /\ SetState(w, SuccessfulUpdate, "", FALSE)

\* UpdateCluster, line 110.
SetStateSuccess(w) ==
    /\ pc[w] = "setStateSuccess"
    /\ SetState(w, SuccessfulUpdate, "", TRUE)

\* ------------------------------------------------------------ other actors
\* Another actor deletes a Service, rewrites one (a new resourceVersion), or
\* patches the spec of a cluster resource.
ExternalDeleteService(name) ==
    /\ nexternal < MaxExternal
    /\ services[name].exists
    /\ services' = [services EXCEPT ![name] = Deleted(@)]
    /\ nexternal' = nexternal + 1
    /\ UNCHANGED <<statefulsets, backups, stored, badTemplates, workerVars,
                   active, ncalls, dispatchVars>>

ExternalUpdateService(name) ==
    /\ nexternal < MaxExternal
    /\ services[name].exists
    /\ services' = [services EXCEPT ![name].version = @ + 1]
    /\ nexternal' = nexternal + 1
    /\ UNCHANGED <<statefulsets, backups, stored, badTemplates, workerVars,
                   active, ncalls, dispatchVars>>

PatchSpec(w, spec) ==
    /\ nexternal < MaxExternal
    /\ w \in active
    /\ stored[w].spec # spec
    /\ stored' = [stored EXCEPT ![w].spec = spec, ![w].version = @ + 1]
    /\ nexternal' = nexternal + 1
    /\ UNCHANGED <<services, statefulsets, backups, badTemplates, workerVars,
                   active, ncalls, dispatchVars>>

\* ----------------------------------------------------------- specification
NoCluster == [name |-> "", spec |-> [port |-> 0, fromBackup |-> ""],
              status |-> NoStatus, version |-> 0]

InitPlatform ==
    /\ services = [n \in SvcNames |-> NoObject]
    /\ statefulsets = [n \in StsNames |-> NoObject]
    /\ backups \in SUBSET BackupNames
    /\ badTemplates \in {{}} \cup {{t} : t \in Templates}
    /\ stored \in [Clusters -> [spec : ClusterSpecs, status : {NoStatus}, version : {1}]]

InitWorkers ==
    /\ pc = [w \in Clusters |-> "idle"]
    /\ op = [w \in Clusters |-> ""]
    /\ cluster = [w \in Clusters |-> NoCluster]
    /\ err = [w \in Clusters |-> NoError]
    /\ oldVersion = [w \in Clusters |-> 0]
    /\ ret = [w \in Clusters |-> NoError]
    /\ log = [w \in Clusters |-> <<>>]
    /\ before = [w \in Clusters |->
                    [services |-> services, statefulsets |-> statefulsets,
                     stored |-> stored[w], nexternal |-> 0]]
    /\ ncalls = 0
    /\ nexternal = 0
    /\ queue = [w \in Clusters |-> <<>>]
    /\ delivered = [w \in Clusters |-> <<>>]
    /\ invoked = [w \in Clusters |-> <<>>]

\* One worker: the calls of one cluster identity, one after the other.
Init ==
    /\ InitPlatform
    /\ InitWorkers
    /\ active = {MainCluster}
    /\ \A w \in Clusters \ active : stored[w].spec = [port |-> 0, fromBackup |-> ""]

Next ==
    \/ \E w \in Clusters : AddClusterBegin(w)
    \/ \E w \in Clusters : CreateService(w)
    \/ \E w \in Clusters : CreateReadService(w)
    \/ \E w \in Clusters : RevertService(w)
    \/ \E w \in Clusters : GetBackup(w)
    \/ \E w \in Clusters : CreateStatefulSet(w)
    \/ \E w \in Clusters : RevertServices(w)
    \/ \E w \in Clusters : RevertReadService(w)
    \/ \E w \in Clusters : UpdateClusterBegin(w)
    \/ \E w \in Clusters : GetService(w)
    \/ \E w \in Clusters : UpdateService(w)
    \/ \E w \in Clusters : UpdateStatefulSet(w)
    \/ \E w \in Clusters : SetStateServiceFailure(w)
    \/ \E w \in Clusters : SetStateStatefulSetFailure(w)
    \/ \E w \in Clusters : SetStateSuccess(w)
    \/ \E name \in SvcNames : ExternalDeleteService(name)
    \/ \E name \in SvcNames : ExternalUpdateService(name)
    \/ \E w \in Clusters, spec \in ClusterSpecs : PatchSpec(w, spec)

Spec == Init /\ [][Next]_vars

TypeOK ==
    /\ pc \in [Clusters -> {"idle", "done", "panicked", "createService",
                 "createReadService", "revertService", "getBackup",
                 "createStatefulSet", "revertServices", "revertReadService",
                 "getService", "updateService", "getReadService",
                 "updateReadService", "updateStatefulSet", "setStateServiceFailure",
                 "setStateStatefulSetFailure", "setStateSuccess"}]
    /\ ncalls \in 0..MaxCalls
    /\ nexternal \in 0..MaxExternal

\* -------------------------------------------------------------- dispatcher
\* The event dispatcher: the watch delivers Added and Modified notifications
\* of a cluster resource; the dispatcher keeps them per identity in arrival
\* order and hands the oldest one to the Reconciler once the call before it,
\* of the same identity, has returned.  Identities do not wait for each other.
Notifications == {"Added", "Modified"}
OperationOf(kind) == IF kind = "Added" THEN "AddCluster" ELSE "UpdateCluster"
FirstStep(operation) ==
    IF operation = "AddCluster" THEN "createService" ELSE "getService"

RECURSIVE TotalLen(_, _)
TotalLen(f, S) ==
    IF S = {} THEN 0
    ELSE LET x == CHOOSE y \in S : TRUE IN Len(f[x]) + TotalLen(f, S \ {x})

\* The watch delivers a notification of the resource w.
Notify(w, kind) ==
    /\ w \in active
    /\ TotalLen(delivered, Clusters) < MaxCalls
    /\ queue' = [queue EXCEPT ![w] = Append(@, kind)]
    /\ delivered' = [delivered EXCEPT ![w] = Append(@, kind)]
    /\ UNCHANGED <<platformVars, workerVars, active, ncalls, nexternal, invoked>>

\* Dispatch not waiting for the call before to return.
Dispatch_NoWait(w) ==
    /\ queue[w] # <<>>
    /\ LET operation == OperationOf(Head(queue[w])) IN
         /\ Begin(w, operation, FirstStep(operation))
         /\ invoked' = [invoked EXCEPT ![w] =
                           Append(@, [operation |-> operation, after |-> pc[w]])]
    /\ queue' = [queue EXCEPT ![w] = Tail(@)]
    /\ UNCHANGED delivered

\* The dispatcher takes the oldest notification of w and makes the call; a
\* call that returned an error does not stop it.
Dispatch(w) ==
    /\ queue[w] # <<>>
    /\ Idle(w)
    /\ LET operation == OperationOf(Head(queue[w])) IN
         /\ Begin(w, operation, FirstStep(operation))
         /\ invoked' = [invoked EXCEPT ![w] =
                           Append(@, [operation |-> operation, after |-> pc[w]])]
    /\ queue' = [queue EXCEPT ![w] = Tail(@)]
    /\ UNCHANGED delivered

\* Every identity has a worker; every template renders, the backups exist,
\* and the resources have their fields unset but for the backup of the first.
InitDispatch ==
    /\ InitPlatform
    /\ InitWorkers
    /\ active = Clusters
    /\ badTemplates = {}
    /\ backups = BackupNames
    /\ \A w \in Clusters : stored[w].spec.port = 0
    /\ \A w \in Clusters \ {MainCluster} : stored[w].spec.fromBackup = ""

NextDispatch ==
    \/ \E w \in Clusters, kind \in Notifications : Notify(w, kind)
    \/ \E w \in Clusters : Dispatch(w)
    \/ \E w \in Clusters : CreateService(w)
    \/ \E w \in Clusters : CreateReadService(w)
    \/ \E w \in Clusters : RevertService(w)
    \/ \E w \in Clusters : GetBackup(w)
    \/ \E w \in Clusters : CreateStatefulSet(w)
    \/ \E w \in Clusters : RevertServices(w)
    \/ \E w \in Clusters : RevertReadService(w)
    \/ \E w \in Clusters : GetService(w)
    \/ \E w \in Clusters : UpdateService(w)
    \/ \E w \in Clusters : UpdateStatefulSet(w)
    \/ \E w \in Clusters : SetStateServiceFailure(w)
    \/ \E w \in Clusters : SetStateStatefulSetFailure(w)
    \/ \E w \in Clusters : SetStateSuccess(w)

SpecDispatch == InitDispatch /\ [][NextDispatch]_vars

\* ------------------------------------------------------- reading a history
Returned(w, operation) == w \in active /\ pc[w] = "done" /\ op[w] = operation

IsCall(e, o, kind, name) == e.op = o /\ e.kind = kind /\ e.name = name
Positions(w, o, kind, name) ==
    {i \in 1..Len(log[w]) : IsCall(log[w][i], o, kind, name)}
Deletes(w) == {i \in 1..Len(log[w]) : log[w][i].op = "Delete"}
Contains(e, cause) == \E i \in 1..Len(e.causes) : e.causes[i] = cause
Last(seq) == seq[Len(seq)]
RenderCause(filename) == Call("Render", "Template", filename, "RenderError", 0)

\* A create that left the object in place: created, or there already.
Present(e) == e.res \in {"ok", "AlreadyExists"}
\* The causes a list of calls contributes to an error: its failures, in order.
FailuresOf(calls) == SelectSeq(calls, LAMBDA e : Failed(e.res))
\* No actor but the call itself has touched the platform since it began.
Undisturbed(w) == nexternal = before[w].nexternal

\* The read-write Service was created (or was there) and the read Service
\* failed to be: by its render, or by a Create answered with a failure.
ServiceCreated(w) ==
    /\ Len(log[w]) >= 1
    /\ IsCall(log[w][1], "Create", "Service", ServiceName(w))
    /\ Present(log[w][1])
ReadServiceFailed(w) ==
    /\ ServiceCreated(w)
    /\ \/ serviceReadTemplate \in badTemplates
       \/ /\ Len(log[w]) >= 2
          /\ IsCall(log[w][2], "Create", "Service", ReadServiceName(w))
          /\ log[w][2].res = "Failure"
ReadServiceCause(w) ==
    IF serviceReadTemplate \in badTemplates THEN RenderCause(serviceReadTemplate)
    ELSE log[w][2]

\* C1: when the read-write Service is created and the creation of the read
\* Service fails (not with AlreadyExists), AddCluster deletes the read-write
\* Service before it returns, never tries to create the StatefulSet (nor
\* fetches its backup), and returns an error holding the creation failure
\* and, if the Delete failed, the failure of the Delete after it.
C1_RollbackOfReadService ==
    \A w \in Clusters :
        (Returned(w, "AddCluster") /\ ReadServiceFailed(w)) =>
            /\ IsCall(Last(log[w]), "Delete", "Service", ServiceName(w))
            /\ Cardinality(Deletes(w)) = 1
            /\ \A i \in 1..Len(log[w]) :
                   log[w][i].kind \notin {"StatefulSet", "Backup"}
            /\ Contains(ret[w], ReadServiceCause(w))
            /\ Failed(Last(log[w]).res) => Contains(ret[w], Last(log[w]))
            /\ ret[w].causes = <<ReadServiceCause(w)>> \o FailuresOf(<<Last(log[w])>>)

C1_Witness ==
    \E w \in Clusters :
        /\ Returned(w, "AddCluster") /\ ReadServiceFailed(w)
        /\ log[w][1].res = "ok"
        /\ Last(log[w]).res = "Failure"
        /\ Len(ret[w].causes) = 2

\* Both Services are in place and the creation of the StatefulSet failed: by
\* its render, or by a Create answered with a failure.
BothServicesCreated(w) ==
    /\ ServiceCreated(w)
    /\ Len(log[w]) >= 2
    /\ IsCall(log[w][2], "Create", "Service", ReadServiceName(w))
    /\ Present(log[w][2])
BackupFailed(w) ==
    \E i \in 1..Len(log[w]) : log[w][i].kind = "Backup" /\ Failed(log[w][i].res)
BackupCause(w) ==
    log[w][CHOOSE i \in 1..Len(log[w]) : log[w][i].kind = "Backup"]
StatefulSetFailed(w) ==
    /\ BothServicesCreated(w)
    /\ ~BackupFailed(w)
    /\ \/ statefulSetTemplate \in badTemplates
       \/ \E i \in Positions(w, "Create", "StatefulSet", StatefulSetName(w)) :
              log[w][i].res = "Failure"
StatefulSetCause(w) ==
    IF statefulSetTemplate \in badTemplates THEN RenderCause(statefulSetTemplate)
    ELSE log[w][CHOOSE i \in 1..Len(log[w]) : log[w][i].kind = "StatefulSet"]

\* The last two calls are the Delete of the read-write Service and then the
\* Delete of the read Service, and no other Delete was made.
BothServicesReverted(w) ==
    /\ Len(log[w]) >= 4
    /\ IsCall(log[w][Len(log[w]) - 1], "Delete", "Service", ServiceName(w))
    /\ IsCall(Last(log[w]), "Delete", "Service", ReadServiceName(w))
    /\ Cardinality(Deletes(w)) = 2
RevertFailures(w) ==
    FailuresOf(<<log[w][Len(log[w]) - 1], Last(log[w])>>)

\* C2: when both Services are in place and the creation of the StatefulSet
\* fails (not with AlreadyExists), AddCluster deletes the read-write Service
\* and then the read Service, the second also when the first Delete failed,
\* and returns the creation failure followed by every Delete failure.
C2_RollbackOfStatefulSet ==
    \A w \in Clusters :
        (Returned(w, "AddCluster") /\ StatefulSetFailed(w)) =>
            /\ BothServicesReverted(w)
            /\ ret[w].agg
            /\ ret[w].causes = <<StatefulSetCause(w)>> \o RevertFailures(w)

C2_Witness ==
    \E w \in Clusters :
        /\ Returned(w, "AddCluster") /\ StatefulSetFailed(w)
        /\ log[w][Len(log[w]) - 1].res = "Failure"
        /\ Last(log[w]).res = "Failure"
        /\ Len(ret[w].causes) = 3

\* C3 as claimed: when the backup of spec.fromBackup cannot be fetched,
\* AddCluster returns that error alone and deletes nothing, so both Services
\* are still there when it returns.
C3_NoCompensationClaim ==
    \A w \in Clusters :
        (Returned(w, "AddCluster") /\ BackupFailed(w)) =>
            /\ ret[w] = PlainError(BackupCause(w))
            /\ Deletes(w) = {}
            /\ Undisturbed(w) =>
                   /\ services[ServiceName(w)].exists
                   /\ services[ReadServiceName(w)].exists

\* C3 amended: when the backup of spec.fromBackup cannot be fetched,
\* AddCluster never creates the StatefulSet and compensates as for a failed
\* StatefulSet: it deletes the read-write Service, then the read Service, and
\* returns the aggregate of the fetch error and every Delete failure.
C3_BackupFailureReverts ==
    \A w \in Clusters :
        (Returned(w, "AddCluster") /\ BackupFailed(w)) =>
            /\ BothServicesReverted(w)
            /\ Positions(w, "Create", "StatefulSet", StatefulSetName(w)) = {}
            /\ ret[w].agg
            /\ ret[w].causes = <<BackupCause(w)>> \o RevertFailures(w)
            /\ (Undisturbed(w) /\ RevertFailures(w) = <<>>) =>
                   /\ ~services[ServiceName(w)].exists
                   /\ ~services[ReadServiceName(w)].exists

C3_Witness ==
    \E w \in Clusters :
        /\ Returned(w, "AddCluster") /\ BackupFailed(w)
        /\ BackupCause(w).res = "NotFound"
        /\ RevertFailures(w) = <<>>
        /\ ~services[ServiceName(w)].exists

\* The names of the objects there are.
ExistingServices == {n \in SvcNames : services[n].exists}
ExistingStatefulSets == {n \in StsNames : statefulsets[n].exists}
CreatesOf(w) == SelectSeq(log[w], LAMBDA e : e.op = "Create")
\* The three creates of AddCluster, in its order.
ThreeCreates(w, calls) ==
    /\ Len(calls) = 3
    /\ IsCall(calls[1], "Create", "Service", ServiceName(w))
    /\ IsCall(calls[2], "Create", "Service", ReadServiceName(w))
    /\ IsCall(calls[3], "Create", "StatefulSet", StatefulSetName(w))
\* The platform holds the three objects derived from the name of w.
AllDerived(svcs, sts, w) ==
    /\ svcs[ServiceName(w)].exists
    /\ svcs[ReadServiceName(w)].exists
    /\ sts[StatefulSetName(w)].exists
\* No call of the current invocation met a remote failure or a missing
\* backup, and every template renders.
Healthy(w) ==
    /\ badTemplates = {}
    /\ \A i \in 1..Len(log[w]) : log[w][i].res \in {"ok", "AlreadyExists"}

\* C4: AddCluster on a platform that already holds the two Services and the
\* StatefulSet of the cluster, every Create it issues answering AlreadyExists
\* (and the backup the StatefulSet is derived from, if any, being fetched),
\* issues all three creates, returns nil, deletes nothing and leaves every
\* object as it was; and any AddCluster on a healthy platform (so also the
\* second of two in a row) returns nil and leaves exactly the two Services
\* and the one StatefulSet of the cluster.
C4_AddClusterIdempotent ==
    \A w \in Clusters :
        Returned(w, "AddCluster") =>
            /\ ( /\ AllDerived(before[w].services, before[w].statefulsets, w)
                 /\ Len(CreatesOf(w)) >= 1
                 /\ \A i \in 1..Len(CreatesOf(w)) : CreatesOf(w)[i].res = "AlreadyExists"
                 /\ ~BackupFailed(w) )
               => /\ IsNil(ret[w])
                  /\ ThreeCreates(w, CreatesOf(w))
                  /\ Deletes(w) = {}
                  /\ Undisturbed(w) =>
                         /\ services = before[w].services
                         /\ statefulsets = before[w].statefulsets
            /\ (Healthy(w) /\ Undisturbed(w))
               => /\ IsNil(ret[w])
                  /\ ExistingServices = {ServiceName(w), ReadServiceName(w)}
                  /\ ExistingStatefulSets = {StatefulSetName(w)}

\* A second AddCluster in a row that found everything in place.
C4_Witness ==
    \E w \in Clusters :
        /\ Returned(w, "AddCluster")
        /\ ncalls = 2
        /\ AllDerived(before[w].services, before[w].statefulsets, w)
        /\ ThreeCreates(w, CreatesOf(w))
        /\ \A i \in 1..3 : CreatesOf(w)[i].res = "AlreadyExists"
        /\ cluster[w].spec.fromBackup # ""
        /\ IsNil(ret[w])

\* The object a Create of a rendered object stores where none was before.
Rendered(r, old) == Written(old, r.obj)
Input(w) ==
    [name |-> w, spec |-> before[w].stored.spec, status |-> before[w].stored.status,
     version |-> before[w].stored.version]

\* C5: when none of the derived objects exists and every platform call
\* succeeds, AddCluster returns nil having created exactly the Service named
\* N, the Service named N-read and the StatefulSet named N, in that order,
\* each holding what its template renders from the defaulted spec.
C5_SuccessfulCreation ==
    \A w \in Clusters :
        ( /\ Returned(w, "AddCluster")
          /\ Healthy(w)
          /\ ~before[w].services[ServiceName(w)].exists
          /\ ~before[w].services[ReadServiceName(w)].exists
          /\ ~before[w].statefulsets[StatefulSetName(w)].exists
          /\ Undisturbed(w) )
        => /\ IsNil(ret[w])
           /\ ThreeCreates(w, CreatesOf(w))
           /\ \A i \in 1..3 : CreatesOf(w)[i].res = "ok"
           /\ ServiceName(w) = w /\ ReadServiceName(w) = w \o "-read"
           /\ StatefulSetName(w) = w
           /\ ExistingServices \ {n \in SvcNames : before[w].services[n].exists}
                = {ServiceName(w), ReadServiceName(w)}
           /\ ExistingStatefulSets \ {n \in StsNames : before[w].statefulsets[n].exists}
                = {StatefulSetName(w)}
           /\ services[ServiceName(w)] =
                Rendered(serviceForCluster(WithDefaults(Input(w)), serviceTemplate),
                         before[w].services[ServiceName(w)])
           /\ services[ReadServiceName(w)] =
                Rendered(serviceForCluster(WithDefaults(Input(w)), serviceReadTemplate),
                         before[w].services[ReadServiceName(w)])
           /\ statefulsets[StatefulSetName(w)] =
                Rendered(statefulSetForCluster(WithDefaults(Input(w)),
                                               Input(w).spec.fromBackup),
                         before[w].statefulsets[StatefulSetName(w)])
           /\ services[ServiceName(w)].port # 0

\* A creation from nothing, of a cluster with an unset port and a backup.
C5_Witness ==
    \E w \in Clusters :
        /\ Returned(w, "AddCluster") /\ Healthy(w) /\ Undisturbed(w)
        /\ before[w].services = [n \in SvcNames |-> NoObject]
        /\ before[w].stored.spec = [port |-> 0, fromBackup |-> "bk"]
        /\ Len(log[w]) = 4
        /\ statefulsets[StatefulSetName(w)].backup = "bk"
        /\ services[ReadServiceName(w)].port = DefaultPort

\* The Updates of Services and of the StatefulSet made so far, and the ones
\* of them that failed.
ServiceUpdates(w) ==
    {i \in 1..Len(log[w]) : log[w][i].op = "Update" /\ log[w][i].kind = "Service"}
StatefulSetUpdates(w) ==
    {i \in 1..Len(log[w]) : log[w][i].op = "Update" /\ log[w][i].kind = "StatefulSet"}
StatusWrites(w) ==
    {i \in 1..Len(log[w]) : log[w][i].op = "Update" /\ log[w][i].kind = "Cluster"}
\* The failure of the Service update step: a template of a Service that does
\* not render, or an Update of a Service that failed.
ServiceUpdateFailed(w) ==
    \/ serviceTemplate \in badTemplates
    \/ \E i \in ServiceUpdates(w) : Failed(log[w][i].res)
    \/ /\ serviceReadTemplate \in badTemplates
       /\ \E i \in ServiceUpdates(w) : log[w][i].name = ServiceName(w)
ServiceUpdateCause(w) ==
    IF serviceTemplate \in badTemplates THEN RenderCause(serviceTemplate)
    ELSE IF \E i \in ServiceUpdates(w) : Failed(log[w][i].res)
         THEN log[w][CHOOSE i \in ServiceUpdates(w) : Failed(log[w][i].res)]
         ELSE RenderCause(serviceReadTemplate)
Status(state, message) == [state |-> state, message |-> message]

\* C6: when the Service update step of UpdateCluster fails, the last call of
\* UpdateCluster is a status write with state "Failed update" and the Service
\* failure message, no StatefulSet update is made, and the error returned
\* holds the Service failure and, if the status write failed, its failure;
\* when the write succeeds the stored status is exactly that state and message.
C6_ServiceFailureReported ==
    \A w \in Clusters :
        (Returned(w, "UpdateCluster") /\ ServiceUpdateFailed(w)) =>
            /\ StatusWrites(w) = {Len(log[w])}
            /\ cluster[w].status = Status(FailedUpdate, ServiceFailureMessage)
            /\ cluster[w].status.message =
                   "The provided patch resulted in a Service update failure"
            /\ StatefulSetUpdates(w) = {}
            /\ ret[w].agg
            /\ ret[w].causes = <<ServiceUpdateCause(w)>> \o FailuresOf(<<Last(log[w])>>)
            /\ Last(log[w]).res = "ok" => stored[w].status = cluster[w].status

\* The read Service update failed after the read-write one went through, and
\* the status write failed too.
C6_Witness ==
    \E w \in Clusters :
        /\ Returned(w, "UpdateCluster") /\ ServiceUpdateFailed(w)
        /\ \E i \in ServiceUpdates(w) :
               log[w][i].name = ReadServiceName(w) /\ log[w][i].res = "Failure"
        /\ Last(log[w]).res = "Failure"
        /\ Len(ret[w].causes) = 2

\* C7: when both Service updates and the StatefulSet update succeed, the last
\* call of UpdateCluster is a status write with state "Successful update" and
\* an empty message, and UpdateCluster returns the error of that write as it
\* is (nil when it succeeds); and a call that writes "Successful update" has
\* no failed Service or StatefulSet update.
C7_SuccessReported ==
    \A w \in Clusters :
        Returned(w, "UpdateCluster") =>
            /\ ( /\ Cardinality({i \in ServiceUpdates(w) : log[w][i].res = "ok"}) = 2
                 /\ \E i \in StatefulSetUpdates(w) : log[w][i].res = "ok" )
               => /\ StatusWrites(w) = {Len(log[w])}
                  /\ cluster[w].status = Status(SuccessfulUpdate, "")
                  /\ ret[w] = ErrorOf(Last(log[w]))
                  /\ Last(log[w]).res = "ok" =>
                         IsNil(ret[w]) /\ stored[w].status = Status(SuccessfulUpdate, "")
            /\ cluster[w].status.state = SuccessfulUpdate
               => /\ \A i \in ServiceUpdates(w) \cup StatefulSetUpdates(w) :
                         log[w][i].res = "ok"
                  /\ Cardinality(ServiceUpdates(w)) = 2
                  /\ Cardinality(StatefulSetUpdates(w)) = 1
                  /\ badTemplates = {}

\* Everything was updated and the status write failed.
C7_Witness ==
    \E w \in Clusters :
        /\ Returned(w, "UpdateCluster")
        /\ Cardinality({i \in ServiceUpdates(w) : log[w][i].res = "ok"}) = 2
        /\ \E i \in StatefulSetUpdates(w) : log[w][i].res = "ok"
        /\ Last(log[w]).res = "Failure"
        /\ ~IsNil(ret[w]) /\ ~ret[w].agg

\* A platform call that answered with a failure, AlreadyExists on a Create
\* not counted.
RemoteFailure(e) ==
    Failed(e.res) /\ ~(e.op = "Create" /\ e.res = "AlreadyExists")

\* C8 as claimed: a call of AddCluster or UpdateCluster in which a platform
\* call failed (AlreadyExists on a Create aside) returns an error; so
\* UpdateCluster does not return nil after a failed Get of a Service.
C8_EveryFailureSurfaced ==
    \A w \in Clusters :
        (w \in active /\ pc[w] = "done"
            /\ \E i \in 1..Len(log[w]) : RemoteFailure(log[w][i]))
        => ~IsNil(ret[w])

\* The failures that UpdateCluster does surface: with every Get of a Service
\* left aside, a failed platform call makes the call return an error.
C8_FailuresButGetSurfaced ==
    \A w \in Clusters :
        (w \in active /\ pc[w] = "done"
            /\ \E i \in 1..Len(log[w]) :
                   RemoteFailure(log[w][i]) /\ ~(log[w][i].op = "Get" /\ log[w][i].kind = "Service"))
        => ~IsNil(ret[w])

\* C9 as claimed: a Delete of the cleanup of AddCluster that answers NotFound
\* is not part of the error AddCluster returns.
C9_NotFoundSwallowed ==
    \A w \in Clusters :
        Returned(w, "AddCluster") =>
            \A i \in Deletes(w) :
                log[w][i].res = "NotFound" => ~Contains(ret[w], log[w][i])

\* C10: in UpdateCluster every Update of a Service comes right after a Get
\* of the Service of the same name and carries the version that Get handed
\* back; no Service and no StatefulSet is updated twice in one call; and
\* after an Update answered Conflict the object is neither read nor updated
\* again, and the call returns an error.
C10_ReadBeforeWriteNoRetry ==
    \A w \in Clusters :
        (w \in active /\ op[w] = "UpdateCluster") =>
            /\ \A i \in ServiceUpdates(w) :
                   /\ i > 1
                   /\ IsCall(log[w][i - 1], "Get", "Service", log[w][i].name)
                   /\ log[w][i].token = log[w][i - 1].token
                   /\ log[w][i - 1].res = "ok" => log[w][i].token > 0
            /\ \A i, j \in ServiceUpdates(w) \cup StatefulSetUpdates(w) :
                   (log[w][i].kind = log[w][j].kind /\ log[w][i].name = log[w][j].name)
                       => i = j
            /\ \A i \in ServiceUpdates(w) \cup StatefulSetUpdates(w) :
                   log[w][i].res = "Conflict" =>
                       /\ \A j \in (i + 1)..Len(log[w]) :
                              ~(log[w][j].kind = log[w][i].kind
                                  /\ log[w][j].name = log[w][i].name)
                       /\ pc[w] = "done" => Contains(ret[w], log[w][i])

\* The Service was rewritten by someone else between the Get and the Update.
C10_Witness ==
    \E w \in Clusters :
        /\ Returned(w, "UpdateCluster")
        /\ \E i \in ServiceUpdates(w) :
               /\ log[w][i].res = "Conflict"
               /\ log[w][i].token > 0
               /\ log[w][i - 1].res = "ok"
        /\ ~IsNil(ret[w])

\* Both Services were updated and the StatefulSet update failed: by its
\* render, or by an Update answered with a failure.
StatefulSetUpdateFailed(w) ==
    /\ Cardinality({i \in ServiceUpdates(w) : log[w][i].res = "ok"}) = 2
    /\ \/ statefulSetTemplate \in badTemplates
       \/ \E i \in StatefulSetUpdates(w) : Failed(log[w][i].res)
StatefulSetUpdateCause(w) ==
    IF statefulSetTemplate \in badTemplates THEN RenderCause(statefulSetTemplate)
    ELSE log[w][CHOOSE i \in StatefulSetUpdates(w) : TRUE]

\* C11 as claimed: when both Service updates succeed and the StatefulSet
\* update fails, the status written has state "Failed update" and message
\* "StatefulSet update failure".
C11_ShortMessageClaim ==
    \A w \in Clusters :
        (Returned(w, "UpdateCluster") /\ StatefulSetUpdateFailed(w)) =>
            cluster[w].status = Status("Failed update", "StatefulSet update failure")

\* C11 amended: when both Service updates succeed and the StatefulSet update
\* fails, the last call of UpdateCluster is a status write with state "Failed
\* update" and message "The provided patch resulted in a StatefulSet update
\* failure", and the error returned holds the StatefulSet failure and, if the
\* status write failed, its failure after it.
C11_StatefulSetFailureReported ==
    \A w \in Clusters :
        (Returned(w, "UpdateCluster") /\ StatefulSetUpdateFailed(w)) =>
            /\ StatusWrites(w) = {Len(log[w])}
            /\ cluster[w].status =
                   Status("Failed update",
                          "The provided patch resulted in a StatefulSet update failure")
            /\ ret[w].agg
            /\ ret[w].causes = <<StatefulSetUpdateCause(w)>> \o FailuresOf(<<Last(log[w])>>)
            /\ Last(log[w]).res = "ok" => stored[w].status = cluster[w].status

\* The StatefulSet is missing and the status write fails as well.
C11_Witness ==
    \E w \in Clusters :
        /\ Returned(w, "UpdateCluster") /\ StatefulSetUpdateFailed(w)
        /\ \E i \in StatefulSetUpdates(w) : log[w][i].res = "NotFound"
        /\ Last(log[w]).res = "Failure"
        /\ Len(ret[w].causes) = 2

\* C12: AddCluster never writes the status: at every point of a call of
\* AddCluster, and when it has returned (with nil or an error, with or without
\* cleanup), no Update of the cluster resource was made and the stored
\* resource is the one stored when the call began, but for what other actors
\* did to it.
C12_AddClusterWritesNoStatus ==
    \A w \in Clusters :
        (w \in active /\ op[w] = "AddCluster") =>
            /\ \A i \in 1..Len(log[w]) : log[w][i].kind # "Cluster"
            /\ stored[w].status = before[w].stored.status
            /\ Undisturbed(w) => stored[w] = before[w].stored

\* An AddCluster that failed and cleaned up, on a resource whose status an
\* earlier UpdateCluster has set.
C12_Witness ==
    \E w \in Clusters :
        /\ Returned(w, "AddCluster")
        /\ stored[w].status.state = FailedUpdate
        /\ Deletes(w) # {}
        /\ ~IsNil(ret[w])

\* C13 as claimed: AddCluster and UpdateCluster change nothing of the stored
\* cluster resource but its status: when a call returns, no other actor
\* having stepped in, the stored spec is the one stored when the call began,
\* also when defaulting filled fields of the in-memory resource.
C13_SpecLeftAlone ==
    \A w \in Clusters :
        (w \in active /\ pc[w] = "done" /\ Undisturbed(w)) =>
            stored[w].spec = before[w].stored.spec

\* What does hold: AddCluster leaves the stored spec alone, and UpdateCluster
\* leaves it alone unless its status write went through, which stores the
\* defaulted spec of the in-memory resource along with the status.
C13_SpecIsDefaultedByStatusWrite ==
    \A w \in Clusters :
        (w \in active /\ pc[w] = "done" /\ Undisturbed(w)) =>
            stored[w].spec =
                IF \E i \in StatusWrites(w) : log[w][i].res = "ok"
                THEN WithDefaults(Input(w)).spec
                ELSE before[w].stored.spec

\* The operations a sequence of notifications asks for, in its order.
RECURSIVE OperationsOf(_)
OperationsOf(kinds) ==
    IF kinds = <<>> THEN <<>>
    ELSE <<OperationOf(Head(kinds))>> \o OperationsOf(Tail(kinds))
RECURSIVE Invocations(_)
Invocations(calls) ==
    IF calls = <<>> THEN <<>>
    ELSE <<Head(calls).operation>> \o Invocations(Tail(calls))

\* C14: for every identity, the calls the dispatcher has made followed by the
\* notifications it still holds are the notifications delivered, in their
\* order: none dropped, none reordered, one call for each; and every call was
\* begun when the call before it, of that identity, had returned.  So after
\* Added then Modified, AddCluster has returned before UpdateCluster begins.
C14_DispatchInOrder ==
    /\ \A w \in Clusters :
        /\ Invocations(invoked[w]) \o OperationsOf(queue[w]) = OperationsOf(delivered[w])
        /\ \A i \in 1..Len(invoked[w]) : invoked[w][i].after \in {"idle", "done"}
        /\ (invoked[w] # <<>> /\ pc[w] # "idle") => op[w] = Last(invoked[w]).operation
        /\ (Len(delivered[w]) >= 2 /\ delivered[w][1] = "Added"
              /\ delivered[w][2] = "Modified" /\ op[w] = "UpdateCluster")
           => /\ Len(invoked[w]) >= 2
              /\ invoked[w][1].operation = "AddCluster"
              /\ invoked[w][2].operation = "UpdateCluster"
              /\ invoked[w][2].after = "done"
    /\ ncalls = TotalLen(invoked, Clusters)

\* Added then Modified of one identity, both handled.
C14_Witness ==
    \E w \in Clusters :
        /\ delivered[w] = <<"Added", "Modified">>
        /\ queue[w] = <<>>
        /\ Returned(w, "UpdateCluster")
        /\ Invocations(invoked[w]) = <<"AddCluster", "UpdateCluster">>

\* The first step of UpdateCluster that failed: the position of the failed
\* Update in the calls made, or 0 when none failed.
FirstFailedUpdate(w) ==
    LET bad == {i \in ServiceUpdates(w) \cup StatefulSetUpdates(w) : Failed(log[w][i].res)}
    IN IF bad = {} THEN 0 ELSE CHOOSE i \in bad : \A j \in bad : i <= j
\* The Service a successful Update of this call has stored.
Updated(w, filename, name) ==
    Written([before[w].services[name] EXCEPT !.version = services[name].version - 1],
            serviceForCluster(cluster[w], filename).obj)

\* C15: UpdateCluster deletes nothing, creates nothing and updates no object
\* twice; after a failed update the only further call is the one status write
\* (so the read Service is not touched after the read-write Service failed);
\* and a read-write Service that was updated before a later step failed keeps
\* what that update stored.
C15_NoRollbackOnUpdate ==
    \A w \in Clusters :
        (w \in active /\ op[w] = "UpdateCluster") =>
            /\ \A i \in 1..Len(log[w]) : log[w][i].op \in {"Get", "Update"}
            /\ \A i, j \in ServiceUpdates(w) \cup StatefulSetUpdates(w) :
                   (log[w][i].kind = log[w][j].kind /\ log[w][i].name = log[w][j].name)
                       => i = j
            /\ FirstFailedUpdate(w) # 0 =>
                   /\ Len(log[w]) <= FirstFailedUpdate(w) + 1
                   /\ \A j \in (FirstFailedUpdate(w) + 1)..Len(log[w]) :
                          log[w][j].kind = "Cluster"
                   /\ pc[w] = "done" =>
                          /\ Len(log[w]) = FirstFailedUpdate(w) + 1
                          /\ cluster[w].status.state = FailedUpdate
            /\ ( /\ pc[w] = "done" /\ Undisturbed(w)
                 /\ ~IsNil(ret[w])
                 /\ \E i \in ServiceUpdates(w) :
                        log[w][i].name = ServiceName(w) /\ log[w][i].res = "ok" )
               => services[ServiceName(w)] =
                      Updated(w, serviceTemplate, ServiceName(w))

\* The read-write Service got a new port, then the read Service failed.
C15_Witness ==
    \E w \in Clusters :
        /\ Returned(w, "UpdateCluster") /\ Undisturbed(w)
        /\ \E i \in ServiceUpdates(w) :
               log[w][i].name = ServiceName(w) /\ log[w][i].res = "ok"
        /\ \E i \in ServiceUpdates(w) :
               log[w][i].name = ReadServiceName(w) /\ Failed(log[w][i].res)
        /\ services[ServiceName(w)].version = before[w].services[ServiceName(w)].version + 1
        /\ Len(log[w]) = 5

\* The platform held none of the objects derived from w when the call began.
NoneDerived(svcs, sts, w) ==
    /\ ~svcs[ServiceName(w)].exists
    /\ ~svcs[ReadServiceName(w)].exists
    /\ ~sts[StatefulSetName(w)].exists
\* The first step of AddCluster failed: the render of the read-write Service
\* or its Create, not answered AlreadyExists.
FirstStepFailed(w) ==
    \/ serviceTemplate \in badTemplates
    \/ Len(log[w]) >= 1 /\ log[w][1].res = "Failure"
FirstStepCause(w) ==
    IF serviceTemplate \in badTemplates THEN RenderCause(serviceTemplate)
    ELSE log[w][1]

\* C16: an AddCluster that began with none of the derived objects of its
\* cluster on the platform, no other actor stepping in, has on return either
\* returned nil with all three objects there, or returned an error and,
\* every Delete it made having succeeded, left none of them (the objects
\* there are those there were); when its first step failed it returned that
\* error alone and made no other call.
C16_ConvergedOrRolledBack ==
    \A w \in Clusters :
        ( /\ Returned(w, "AddCluster") /\ Undisturbed(w)
          /\ NoneDerived(before[w].services, before[w].statefulsets, w) ) =>
            /\ IsNil(ret[w]) => AllDerived(services, statefulsets, w)
            /\ ( /\ ~IsNil(ret[w])
                 /\ \A i \in Deletes(w) : log[w][i].res = "ok" ) =>
                   /\ NoneDerived(services, statefulsets, w)
                   /\ ExistingServices =
                          {n \in SvcNames : before[w].services[n].exists}
                   /\ ExistingStatefulSets =
                          {n \in StsNames : before[w].statefulsets[n].exists}
            /\ FirstStepFailed(w) =>
                   /\ ret[w] = PlainError(FirstStepCause(w))
                   /\ Len(log[w]) <= 1
                   /\ \A i \in 1..Len(log[w]) : log[w][i] = FirstStepCause(w)

\* Both Services were created, the StatefulSet was refused, and both Deletes
\* succeeded.
C16_Witness ==
    \E w \in Clusters :
        /\ Returned(w, "AddCluster") /\ Undisturbed(w)
        /\ NoneDerived(before[w].services, before[w].statefulsets, w)
        /\ ~IsNil(ret[w])
        /\ Cardinality(Deletes(w)) = 2
        /\ \A i \in Deletes(w) : log[w][i].res = "ok"
        /\ \E i \in 1..Len(log[w]) :
               log[w][i].kind = "StatefulSet" /\ log[w][i].res = "Failure"
        /\ NoneDerived(services, statefulsets, w)

\* The names of the Services the call itself created.
CreatedBy(w) ==
    {log[w][i].name : i \in {j \in 1..Len(log[w]) :
        log[w][j].op = "Create" /\ log[w][j].kind = "Service" /\ log[w][j].res = "ok"}}

\* C17: when an AddCluster returns, no other actor having stepped in, every
\* Service whose Create answered AlreadyExists is still there, and every
\* Delete the call made was of a Service the call itself had created.
C17_OnlyOwnCreationsRemoved ==
    \A w \in Clusters :
        (Returned(w, "AddCluster") /\ Undisturbed(w)) =>
            /\ \A i \in 1..Len(log[w]) :
                   (log[w][i].op = "Create" /\ log[w][i].kind = "Service"
                    /\ log[w][i].res = "AlreadyExists")
                       => services[log[w][i].name].exists
            /\ \A i \in Deletes(w) : log[w][i].name \in CreatedBy(w)

\* The names of the objects of a kind that are derived from a cluster name.
DerivedNames(kind, n) ==
    IF kind = "Service" THEN {ServiceName(n), ReadServiceName(n)}
    ELSE IF kind = "StatefulSet" THEN {StatefulSetName(n)}
    ELSE {}

\* C18: of two distinct clusters, whatever calls are made on them and however
\* they interleave, a call on the one makes no platform call on a Service or
\* StatefulSet whose name is derived from the name of the other.
C18_IsolationBetweenIdentities ==
    \A a, b \in active :
        a # b =>
            \A i \in 1..Len(log[a]) :
                log[a][i].name \notin DerivedNames(log[a][i].kind, b)

\* What a stored object holds, its version aside.
Content(obj) == [obj EXCEPT !.version = 0]
\* The StatefulSet that was there when the call began is the one AddCluster
\* creates from the spec the call was given: rendered from the defaulted
\* spec and the backup it names.
AsCreated(w) ==
    /\ before[w].statefulsets[StatefulSetName(w)].exists
    /\ cluster[w].spec.fromBackup # "" => cluster[w].spec.fromBackup \in backups
    /\ Content(before[w].statefulsets[StatefulSetName(w)]) =
           Content(Written(NoObject,
               statefulSetForCluster(cluster[w], cluster[w].spec.fromBackup).obj))

\* C19: when UpdateCluster has returned nil on a cluster whose StatefulSet
\* was as AddCluster creates it from the same spec (a backup to start from
\* included), no other actor having stepped in, the StatefulSet stored
\* holds what it held before.
C19_UpdateRendersAsCreation ==
    \A w \in Clusters :
        ( /\ Returned(w, "UpdateCluster") /\ IsNil(ret[w]) /\ Undisturbed(w)
          /\ AsCreated(w)
          /\ \E i \in StatefulSetUpdates(w) : log[w][i].res = "ok" ) =>
            Content(statefulsets[StatefulSetName(w)]) =
                Content(before[w].statefulsets[StatefulSetName(w)])

\* What does hold: a cluster that names no backup keeps its StatefulSet as
\* created; one that names a backup gets a StatefulSet rendered without it.
C19_BackupLeftOutOnUpdate ==
    \A w \in Clusters :
        ( /\ Returned(w, "UpdateCluster") /\ IsNil(ret[w]) /\ Undisturbed(w)
          /\ AsCreated(w)
          /\ \E i \in StatefulSetUpdates(w) : log[w][i].res = "ok" ) =>
            Content(statefulsets[StatefulSetName(w)]) =
                [Content(before[w].statefulsets[StatefulSetName(w)])
                     EXCEPT !.backup = ""]

====
